---------------------------- MODULE Spec2Model ----------------------------
(***************************************************************************)
(* A model of the rule_convergence toolkit: the ZDD text converter         *)
(* (zdd_binary_to_text.py), the ZDD CSV analyzer                            *)
(* (tools/zdd_to_csv_correct.py), parse_assignment                          *)
(* (summarize_agreement.py) and the batch evaluation manager                *)
(* (batch_evaluation_manager.py).                                           *)
(*                                                                         *)
(* Text is a sequence of one-character strings, so that formatting and     *)
(* parsing are computed character by character.  A binary file is a        *)
(* sequence of integer words.                                              *)
(***************************************************************************)
EXTENDS Integers, Sequences, FiniteSets, TLC

VARIABLES
    bin,          \* the binary files on disk: name -> words (existing files only)
    pc,           \* position of the running command
    structure,    \* outcome of the converter's parser.load()
    text_out,     \* the converter's output file: Ok(text) once opened for writing
    result,       \* what the converter call returned or raised
    reparsed,     \* parse_assignment applied to every line of text_out
    call,         \* the running command and its arguments
    zdds,         \* CorrectZDDAnalyzer.zdds: zdd number -> structure
    reported,     \* array counts printed by load_zdd_files, per zdd number
    complete_csv, \* all_arrays_complete_correct.csv: Ok(data rows) once written
    summary_csv,  \* arrays_summary_correct.csv: Ok(data rows) once written
    pattern_csv,  \* pattern_analysis_correct.csv: Ok(data rows) once written
    index,        \* BatchEvaluationManager.index['batches']
    index_file,   \* the batches persisted in evaluations/batch_index.json
    batch_files,  \* evaluations/<evaluator>/batch_<n>.json: <<evaluator, n>> -> data
    ret           \* what the last manager call returned or raised

vars == <<bin, pc, call, structure, text_out, result, reparsed, zdds, reported,
          complete_csv, summary_csv, pattern_csv,
          index, index_file, batch_files, ret>>

zddVars == <<bin, structure, text_out, result, reparsed, zdds, reported,
             complete_csv, summary_csv, pattern_csv>>
convVars == <<structure, text_out, result, reparsed>>
csvVars == <<zdds, reported, complete_csv, summary_csv, pattern_csv>>
batchVars == <<index, index_file, batch_files, ret>>

(***************************************************************************)
(* Bounds of the model.                                                    *)
(***************************************************************************)
MaxLen == 2       \* longest array in a binary file
MaxArrays == 2    \* arrays in all the binary files of the directory together
MaxLibArrays == 1 \* the same, where the analyzer's methods run in any order
MaxBatches == 2   \* batches in evaluations/batch_index.json
MaxClauses == 3   \* clause ids an evaluation map draws its keys from
MaxWitLines == 4  \* lines of the WIT file

Vals == {-3, 12}  \* the integers stored in arrays
Magics == {90}    \* the magic numbers of the files

\* The outcome of a call: a returned value, a raised exception, or nothing yet.
Ok(v) == [tag |-> "ok", val |-> v]
Raise(e) == [tag |-> "raise", val |-> e]
Nothing == [tag |-> "none", val |-> <<>>]

DecodeError == "DecodeError"
ValueError == "ValueError"
KeyError == "KeyError"
FileNotFoundError == "FileNotFoundError"

(***************************************************************************)
(* Python built-ins on text and lists.                                     *)
(***************************************************************************)
\* A text is a sequence of characters.  A character that a TLA+ string cannot
\* hold is written as its Python escape ("\\x0b" is the one character \x0b).
\* Beyond ASCII the texts range over Latin-1, the Unicode spaces and the
\* Arabic-Indic digits (the decimal digits of a script other than ASCII).
DigitChars == <<"0", "1", "2", "3", "4", "5", "6", "7", "8", "9">>
ArabicIndicDigits == <<"\\u0660", "\\u0661", "\\u0662", "\\u0663", "\\u0664",
                       "\\u0665", "\\u0666", "\\u0667", "\\u0668", "\\u0669">>
\* str.isdecimal(), the class \d
DecimalChars == {DigitChars[d] : d \in 1..10} \cup {ArabicIndicDigits[d] : d \in 1..10}

AsciiSpaces == {" ", "\n", "\t", "\r", "\f", "\\x0b"}
SeparatorControls == {"\\x1c", "\\x1d", "\\x1e", "\\x1f"}
UnicodeSpaces == {"\\x85", "\\xa0", "\\u1680", "\\u2000", "\\u2001", "\\u2002",
                  "\\u2003", "\\u2004", "\\u2005", "\\u2006", "\\u2007", "\\u2008",
                  "\\u2009", "\\u200a", "\\u2028", "\\u2029", "\\u202f", "\\u205f",
                  "\\u3000"}
\* str.isspace(): what str.strip() removes and the class \s matches
Whitespace == AsciiSpaces \cup SeparatorControls \cup UnicodeSpaces
\* the blanks int() skips around a literal: not the separators \x1c-\x1f
IntWhitespace == Whitespace \ SeparatorControls

RECURSIVE str_nat(_)
str_nat(n) ==
    IF n < 10 THEN <<DigitChars[n + 1]>>
    ELSE str_nat(n \div 10) \o <<DigitChars[(n % 10) + 1]>>

\* str(n) for an int
str(n) == IF n < 0 THEN <<"-">> \o str_nat(-n) ELSE str_nat(n)

\* sep.join(parts), parts a sequence of texts
RECURSIVE join(_, _)
join(sep, parts) ==
    IF parts = <<>> THEN <<>>
    ELSE IF Len(parts) = 1 THEN parts[1]
    ELSE parts[1] \o sep \o join(sep, Tail(parts))

\* s.lstrip(chars)
RECURSIVE lstrip(_, _)
lstrip(s, chars) ==
    IF s # <<>> /\ s[1] \in chars THEN lstrip(Tail(s), chars) ELSE s

\* s.rstrip(chars)
RECURSIVE rstrip(_, _)
rstrip(s, chars) ==
    IF s # <<>> /\ s[Len(s)] \in chars
    THEN rstrip(SubSeq(s, 1, Len(s) - 1), chars) ELSE s

\* s.strip(chars)
strip(s, chars) == rstrip(lstrip(s, chars), chars)

\* s.split(c) for a one-character separator: always at least one piece
RECURSIVE split_from(_, _, _, _)
split_from(s, c, i, piece) ==
    IF i > Len(s) THEN <<piece>>
    ELSE IF s[i] = c THEN <<piece>> \o split_from(s, c, i + 1, <<>>)
    ELSE split_from(s, c, i + 1, Append(piece, s[i]))

split(s, c) == split_from(s, c, 1, <<>>)

DigitValue(c) ==
    CHOOSE d \in 0..9 : DigitChars[d + 1] = c \/ ArabicIndicDigits[d + 1] = c

\* the value of the digits of a literal; the underscores between them are skipped
RECURSIVE int_digits(_, _)
int_digits(s, acc) ==
    IF s = <<>> THEN acc
    ELSE IF s[1] = "_" THEN int_digits(Tail(s), acc)
    ELSE int_digits(Tail(s), 10 * acc + DigitValue(s[1]))

\* the digit part of an int() literal: decimal digits, with single
\* underscores allowed between two digits
IsDigits(s) ==
    /\ s # <<>>
    /\ \A i \in 1..Len(s) :
           \/ s[i] \in DecimalChars
           \/ /\ s[i] = "_"
              /\ 1 < i /\ i < Len(s)
              /\ s[i - 1] \in DecimalChars /\ s[i + 1] \in DecimalChars

\* int(s): surrounding whitespace, an optional sign, decimal digits;
\* int_ok(s) is whether int(s) returns (it raises ValueError otherwise)
IntBody(s) ==
    LET t == strip(s, IntWhitespace)
    IN  IF t # <<>> /\ t[1] \in {"-", "+"} THEN Tail(t) ELSE t

int_ok(s) == IsDigits(IntBody(s))

int(s) ==
    LET t == strip(s, IntWhitespace)
    IN  IF t[1] = "-" THEN -int_digits(IntBody(s), 0)
        ELSE int_digits(IntBody(s), 0)

\* sorted(xs) for a list of ints: ascending, a new list
RECURSIVE insert_sorted(_, _)
insert_sorted(x, ys) ==
    IF ys = <<>> THEN <<x>>
    ELSE IF x < ys[1] THEN <<x>> \o ys
    ELSE <<ys[1]>> \o insert_sorted(x, Tail(ys))

RECURSIVE sorted(_)
sorted(xs) ==
    IF xs = <<>> THEN <<>>
    ELSE insert_sorted(xs[Len(xs)], sorted(SubSeq(xs, 1, Len(xs) - 1)))

\* the lines of a text file, each without its terminator
splitlines(text) ==
    LET pieces == split(text, "\n")
    IN  IF pieces[Len(pieces)] = <<>>
        THEN SubSeq(pieces, 1, Len(pieces) - 1) ELSE pieces

Range(s) == {s[i] : i \in DOMAIN s}

(***************************************************************************)
(* summarize_agreement.parse_assignment                                    *)
(***************************************************************************)
\* parse_assignment without its `if not clean` guard
parse_assignment_unguarded(array_sig) ==
    LET clean == strip(array_sig, {"[", "]"})
        parts == split(clean, ",")
    IN  IF \E i \in 1..Len(parts) : ~int_ok(strip(parts[i], Whitespace))
        THEN Raise(ValueError)
        ELSE Ok([i \in 1..Len(parts) |-> int(strip(parts[i], Whitespace))])

parse_assignment(array_sig) ==
    LET clean == strip(array_sig, {"[", "]"})
        parts == split(clean, ",")
    IN  IF clean = <<>> THEN Ok(<<>>)
        ELSE IF \E i \in 1..Len(parts) : ~int_ok(strip(parts[i], Whitespace))
        THEN Raise(ValueError)
        ELSE Ok([i \in 1..Len(parts) |-> int(strip(parts[i], Whitespace))])

(***************************************************************************)
(* The ZDD binary format: magic number, array count, then each array as    *)
(* its length followed by its elements.                                    *)
(***************************************************************************)
RECURSIVE EncodeArrays(_)
EncodeArrays(arrays) ==
    IF arrays = <<>> THEN <<>>
    ELSE <<Len(arrays[1])>> \o arrays[1] \o EncodeArrays(Tail(arrays))

Encode(s) == <<s.magic_number, Len(s.arrays)>> \o EncodeArrays(s.arrays)

RECURSIVE ReadArrays(_, _, _, _)
ReadArrays(words, pos, n, acc) ==
    IF n = 0 THEN Ok(acc)
    ELSE IF pos > Len(words) THEN Raise(DecodeError)
    ELSE IF words[pos] < 0 \/ pos + words[pos] > Len(words)
    THEN Raise(DecodeError)
    ELSE ReadArrays(words, pos + words[pos] + 1, n - 1,
                    Append(acc, SubSeq(words, pos + 1, pos + words[pos])))

\* ZDDParser(path).load() on the words of the file
Load(words) ==
    IF Len(words) < 2 \/ words[2] < 0 THEN Raise(DecodeError)
    ELSE LET arrays == ReadArrays(words, 3, words[2], <<>>)
         IN  IF arrays.tag = "raise" THEN arrays
             ELSE Ok([magic_number |-> words[1], arrays |-> arrays.val])

HeaderCount(words) == words[2]

(***************************************************************************)
(* File names and the directories of binary files the commands start from. *)
(***************************************************************************)
\* the second file's number has no entry in thesis_mapping
ZddNums == {1, 12}
BinName(n) == <<"z", "d", "d", "_">> \o str(n) \o <<".", "b", "i", "n">>
BinNames == {BinName(n) : n \in ZddNums}

\* Path.stem and Path.with_suffix for a name with one suffix
Stem(name) == join(<<".">>, SubSeq(split(name, "."), 1, Len(split(name, ".")) - 1))
WithSuffix(name, suffix) == Stem(name) \o suffix

\* ASCII order of the characters of file names
Alphabet == <<".", "0", "1", "2", "3", "4", "5", "6", "7", "8", "9",
              "_", "a", "b", "c", "d", "e", "f", "g", "h", "i", "j", "k", "l",
              "m", "n", "o", "p", "q", "r", "s", "t", "u", "v", "w", "x", "y",
              "z">>
Ord(c) == CHOOSE k \in 1..Len(Alphabet) : Alphabet[k] = c

RECURSIVE TextLess(_, _)
TextLess(a, b) ==
    IF b = <<>> THEN FALSE
    ELSE IF a = <<>> THEN TRUE
    ELSE IF a[1] = b[1] THEN TextLess(Tail(a), Tail(b))
    ELSE Ord(a[1]) < Ord(b[1])

\* sorted(names) for a set of distinct paths
RECURSIVE SortedNames(_)
SortedNames(names) ==
    IF names = {} THEN <<>>
    ELSE LET least == CHOOSE n \in names :
                          \A m \in names \ {n} : TextLess(n, m)
         IN  <<least>> \o SortedNames(names \ {least})

ArraysOver == UNION {[1..k -> Vals] : k \in 0..MaxLen}
ArrayLists(n) == UNION {[1..k -> ArraysOver] : k \in 0..n}
Structures(n) ==
    {[magic_number |-> m, arrays |-> a] : m \in Magics, a \in ArrayLists(n)}

\* A file cut short by one word: a truncated file.
Truncate(words) == SubSeq(words, 1, Len(words) - 1)
Damage(dir, cut) ==
    [n \in DOMAIN dir |-> IF n \in cut THEN Truncate(dir[n]) ELSE dir[n]]

\* The directory whose files `present` hold the structures s1 and s2, with the
\* files `cut` truncated.
Restrict(f, S) == [x \in S |-> f[x]]
Dir(s1, s2, present, cut) ==
    Damage(Restrict(BinName(1) :> Encode(s1) @@ BinName(12) :> Encode(s2), present),
           cut \cap present)

(***************************************************************************)
(* zdd_binary_to_text.py: ZDDBinaryToTextConverter                         *)
(***************************************************************************)
\* the line of an array written from sorted(array) instead of array
ArrayTextSorted(array) ==
    <<"[">> \o join(<<",">>, [i \in 1..Len(array) |-> str(sorted(array)[i])])
    \o <<"]">>

\* f"[{','.join(map(str, array))}]"
ArrayText(array) ==
    <<"[">> \o join(<<",">>, [i \in 1..Len(array) |-> str(array[i])]) \o <<"]">>

\* the array lines with `if array:` before the write: empty arrays get no line
RECURSIVE WriteArraysSkippingEmpty(_)
WriteArraysSkippingEmpty(arrays) ==
    IF arrays = <<>> THEN <<>>
    ELSE (IF arrays[1] = <<>> THEN <<>> ELSE ArrayText(arrays[1]) \o <<"\n">>)
         \o WriteArraysSkippingEmpty(Tail(arrays))

\* the text _write_arrays_to_text leaves in the output file
RECURSIVE WriteArraysToText(_)
WriteArraysToText(arrays) ==
    IF arrays = <<>> THEN <<>>
    ELSE ArrayText(arrays[1]) \o <<"\n">> \o WriteArraysToText(Tail(arrays))

\* the header and footer lines convert_multiple_binary_files writes for file i
SectionHeader(i, name, s) ==
    <<"#", " ", "Z", "D", "D", " ">> \o str(i + 1) \o <<":", " ">> \o name \o <<"\n">>
    \o <<"#", " ", "M", "a", "g", "i", "c", ":", " ">> \o str(s.magic_number) \o <<"\n">>
    \o <<"#", " ", "A", "r", "r", "a", "y", "s", ":", " ">> \o str(Len(s.arrays)) \o <<"\n">>
    \o <<"#", "\n">>

SectionFooter(i) ==
    <<"#", "\n">>
    \o <<"#", " ", "E", "n", "d", " ", "o", "f", " ", "Z", "D", "D", " ">>
    \o str(i + 1) \o <<"\n">>
    \o <<"#", "\n">>

\* the loop raising on a missing file the way convert_binary_to_text does
RECURSIVE MultiLoopStrict(_, _, _, _)
MultiLoopStrict(dir, files, i, text) ==
    IF i >= Len(files) THEN [text |-> text, raised |-> FALSE]
    ELSE IF files[i + 1] \notin DOMAIN dir
    THEN [text |-> text, raised |-> TRUE]
    ELSE LET loaded == Load(dir[files[i + 1]])
         IN  IF loaded.tag = "raise" THEN [text |-> text, raised |-> TRUE]
             ELSE MultiLoopStrict(dir, files, i + 1,
                      text \o SectionHeader(i, files[i + 1], loaded.val)
                           \o WriteArraysToText(loaded.val.arrays)
                           \o SectionFooter(i))

\* the loop with the output discarded when load() raises
RECURSIVE MultiLoopDiscarding(_, _, _, _)
MultiLoopDiscarding(dir, files, i, text) ==
    IF i >= Len(files) THEN [text |-> text, raised |-> FALSE]
    ELSE IF files[i + 1] \notin DOMAIN dir
    THEN MultiLoopDiscarding(dir, files, i + 1, text)
    ELSE LET loaded == Load(dir[files[i + 1]])
         IN  IF loaded.tag = "raise" THEN [text |-> <<>>, raised |-> TRUE]
             ELSE MultiLoopDiscarding(dir, files, i + 1,
                      text \o SectionHeader(i, files[i + 1], loaded.val)
                           \o WriteArraysToText(loaded.val.arrays)
                           \o SectionFooter(i))

\* The loop of convert_multiple_binary_files from list position i (0-based) on,
\* with `text` written so far: the text in the file when the loop ends, and
\* whether it ended because load() raised.
RECURSIVE MultiLoop(_, _, _, _)
MultiLoop(dir, files, i, text) ==
    IF i >= Len(files) THEN [text |-> text, raised |-> FALSE]
    ELSE IF files[i + 1] \notin DOMAIN dir
    THEN MultiLoop(dir, files, i + 1, text)
    ELSE LET loaded == Load(dir[files[i + 1]])
         IN  IF loaded.tag = "raise" THEN [text |-> text, raised |-> TRUE]
             ELSE MultiLoop(dir, files, i + 1,
                      text \o SectionHeader(i, files[i + 1], loaded.val)
                           \o WriteArraysToText(loaded.val.arrays)
                           \o SectionFooter(i))

TxtSuffix == <<".", "t", "x", "t">>
VectorsName == <<"z", "d", "d", "_", "v", "e", "c", "t", "o", "r", "s", ".", "t", "x", "t">>

\* the lists of paths handed to convert_multiple_binary_files
FileLists ==
    {<<>>} \cup {<<n>> : n \in BinNames}
    \cup {<<n, m>> : n \in BinNames, m \in BinNames}

\* convert_binary_to_text(binary_file)
ConvertBinaryToText(binary_file) ==
    /\ pc = "idle"
    /\ pc' = "single"
    /\ call' = [op |-> "convert_binary_to_text", files |-> <<binary_file>>]
    /\ IF binary_file \notin DOMAIN bin
       THEN /\ result' = Raise(FileNotFoundError)
            /\ UNCHANGED <<structure, text_out>>
       ELSE /\ structure' = Load(bin[binary_file])
            /\ IF structure'.tag = "raise"
               THEN /\ result' = structure'
                    /\ UNCHANGED text_out
               ELSE /\ text_out' = Ok(WriteArraysToText(structure'.val.arrays))
                    /\ result' = Ok(WithSuffix(binary_file, TxtSuffix))
    /\ UNCHANGED <<bin, reparsed, csvVars, batchVars>>

\* convert_multiple_binary_files(binary_files)
ConvertMultipleBinaryFiles(binary_files) ==
    /\ pc = "idle"
    /\ pc' = "multi"
    /\ call' = [op |-> "convert_multiple_binary_files", files |-> binary_files]
    /\ IF binary_files = <<>>
       THEN /\ result' = Raise(ValueError)
            /\ UNCHANGED text_out
       ELSE LET done == MultiLoop(bin, binary_files, 0, <<>>)
            IN  /\ text_out' = Ok(done.text)
                /\ result' = IF done.raised THEN Raise(DecodeError)
                                            ELSE Ok(VectorsName)
    /\ UNCHANGED <<bin, structure, reparsed, csvVars, batchVars>>

\* list(directory.glob("zdd*.bin")): the matching files in the order the
\* directory listing returns them, which is any order
Listings(names) ==
    {l \in [1..Cardinality(names) -> names] :
        \A i, j \in 1..Cardinality(names) : i # j => l[i] # l[j]}

\* convert_zdd_binary_directory(directory), the glob returning `listing`
ConvertZddBinaryDirectory(listing) ==
    /\ pc = "idle"
    /\ pc' = "directory"
    /\ call' = [op |-> "convert_zdd_binary_directory", files |-> listing]
    /\ IF listing = <<>>
       THEN /\ result' = Raise(FileNotFoundError)
            /\ UNCHANGED text_out
       ELSE LET done == MultiLoop(bin, listing, 0, <<>>)
            IN  /\ text_out' = Ok(done.text)
                /\ result' = IF done.raised THEN Raise(DecodeError)
                                            ELSE Ok(VectorsName)
    /\ UNCHANGED <<bin, structure, reparsed, csvVars, batchVars>>

ModuleNotFoundError == "ModuleNotFoundError"
ConverterError == "ConverterError"
KelsenName == <<"k", "e", "l", "s", "e", "n", "_", "d", "a", "t", "a", ".", "j", "s", "o", "n">>

\* What precedes the ZDD conversion in convert_job_directory: witness_output
\* is missing ("absent"), or the witness-export converter, a module that is
\* not part of the sources, fails to import, raises, or returns its path.
WitnessOutcomes == {"absent", ModuleNotFoundError, ConverterError, "returned"}

\* convert_job_directory(job_dir), the glob of witness_output returning `listing`
ConvertJobDirectory(listing, witness) ==
    /\ pc = "idle"
    /\ witness = "absent" => listing = <<>>
    /\ pc' = "job"
    /\ call' = [op |-> "convert_job_directory", files |-> listing]
    /\ IF witness = "absent"
       THEN /\ result' = Raise(FileNotFoundError)
            /\ UNCHANGED text_out
       ELSE IF witness # "returned"
       THEN /\ result' = Raise(witness)
            /\ UNCHANGED text_out
       ELSE IF listing = <<>>
       THEN /\ result' = Raise(FileNotFoundError)
            /\ UNCHANGED text_out
       ELSE LET done == MultiLoop(bin, listing, 0, <<>>)
            IN  /\ text_out' = Ok(done.text)
                /\ result' = IF done.raised THEN Raise(DecodeError)
                                            ELSE Ok(<<KelsenName, VectorsName>>)
    /\ UNCHANGED <<bin, structure, reparsed, csvVars, batchVars>>

\* the exit status of the command line for an outcome of the conversion
ExitStatus(outcome) == IF outcome.tag = "raise" THEN 1 ELSE 0

\* every line of the written file, without its terminator, through parse_assignment
Reparse ==
    /\ pc = "single"
    /\ result.tag = "ok"
    /\ pc' = "reparsed"
    /\ LET lines == splitlines(text_out.val)
       IN  reparsed' = [i \in 1..Len(lines) |-> parse_assignment(lines[i])]
    /\ UNCHANGED <<bin, call, structure, text_out, result, csvVars, batchVars>>

(***************************************************************************)
(* tools/zdd_to_csv_correct.py: CorrectZDDAnalyzer                         *)
(*                                                                         *)
(* A Python dict is a sequence of [key, val] entries in insertion order.   *)
(***************************************************************************)
DictKeys(d) == [i \in 1..Len(d) |-> d[i].key]
DictHas(d, k) == \E i \in 1..Len(d) : d[i].key = k
DictGet(d, k) == d[CHOOSE i \in 1..Len(d) : d[i].key = k].val
DictSet(d, k, v) ==
    IF DictHas(d, k)
    THEN [i \in 1..Len(d) |-> IF d[i].key = k THEN [key |-> k, val |-> v] ELSE d[i]]
    ELSE Append(d, [key |-> k, val |-> v])

RECURSIVE Flatten(_)
Flatten(seqs) == IF seqs = <<>> THEN <<>> ELSE seqs[1] \o Flatten(Tail(seqs))

thesis_mapping ==
    <<"2020418", "2021246", "2021398", "2021537", "2023487", "2025237",
      "2025433", "2029251", "2030499", "2030500", "2030717">>

\* self.thesis_mapping.get(zdd_id, f"unknown_{zdd_id}")
ThesisNumber(zdd_id) ==
    IF zdd_id \in DOMAIN thesis_mapping THEN thesis_mapping[zdd_id]
    ELSE "unknown_" \o ToString(zdd_id)

\* int(zdd_file.stem.split('_')[1])
ZddNumOf(name) == int(split(Stem(name), "_")[2])

\* the array count printed for a loaded structure, counting only non-empty arrays
ReportedNonEmpty(s) == Cardinality({i \in 1..Len(s.arrays) : s.arrays[i] # <<>>})

\* the array count load_zdd_files prints for a loaded structure
ReportedArrays(s) == Len(s.arrays)

\* the loading loop with a file that fails to load skipped instead of raising
RECURSIVE LoadLoopSkipping(_, _, _, _, _)
LoadLoopSkipping(dir, files, i, d, printed) ==
    IF i > Len(files) THEN [zdds |-> d, printed |-> printed, raised |-> FALSE]
    ELSE LET loaded == Load(dir[files[i]])
         IN  IF loaded.tag = "raise"
             THEN LoadLoopSkipping(dir, files, i + 1, d, printed)
             ELSE LoadLoopSkipping(dir, files, i + 1,
                      DictSet(d, ZddNumOf(files[i]), loaded.val),
                      Append(printed, [file |-> files[i],
                                       magic |-> loaded.val.magic_number,
                                       arrays |-> ReportedArrays(loaded.val)]))

\* The loop of load_zdd_files over the sorted files from position i (1-based):
\* the dict and the printed lines when it ends, and whether load() raised.
RECURSIVE LoadLoop(_, _, _, _, _)
LoadLoop(dir, files, i, d, printed) ==
    IF i > Len(files) THEN [zdds |-> d, printed |-> printed, raised |-> FALSE]
    ELSE LET loaded == Load(dir[files[i]])
         IN  IF loaded.tag = "raise"
             THEN [zdds |-> d, printed |-> printed, raised |-> TRUE]
             ELSE LoadLoop(dir, files, i + 1,
                      DictSet(d, ZddNumOf(files[i]), loaded.val),
                      Append(printed, [file |-> files[i],
                                       magic |-> loaded.val.magic_number,
                                       arrays |-> ReportedArrays(loaded.val)]))

\* list.sort() on the array itself instead of sorted(array)
SortInPlaceCall(array) == [ret |-> sorted(array), arg |-> sorted(array)]

\* sorted(array): returns a new list and leaves its argument as it was
SortedCall(array) == [ret |-> sorted(array), arg |-> array]

\* self.zdds after a pass that calls sorted() on every array
AfterSortedPass(d) ==
    [i \in 1..Len(d) |->
        [key |-> d[i].key,
         val |-> [magic_number |-> d[i].val.magic_number,
                  arrays |-> [j \in 1..Len(d[i].val.arrays) |->
                                 SortedCall(d[i].val.arrays[j]).arg]]]]

RECURSIVE SetToSeqOfInts(_)
SetToSeqOfInts(S) ==
    IF S = {} THEN <<>>
    ELSE LET x == CHOOSE y \in S : TRUE IN <<x>> \o SetToSeqOfInts(S \ {x})

Min(S) == CHOOSE x \in S : \A y \in S : x <= y
Max(S) == CHOOSE x \in S : \A y \in S : x >= y

\* the rows for an array with the positions counted from 1: enumerate(array, 1)
CompleteRowsFromOne(zdd_id, s, array_idx) ==
    LET array == s.arrays[array_idx + 1]
    IN  [p \in 1..Len(array) |->
            [zdd_id |-> zdd_id,
             thesis_number |-> ThesisNumber(zdd_id),
             magic_number |-> s.magic_number,
             array_index |-> array_idx,
             array_length |-> Len(array),
             array_elements |-> ArrayText(array),
             array_signature_sorted |-> ArrayText(SortedCall(array).ret),
             element_position |-> p,
             element_value |-> array[p]]]

\* the rows generate_complete_csv writes for array array_idx (0-based) of a ZDD
CompleteRowsOfArray(zdd_id, s, array_idx) ==
    LET array == s.arrays[array_idx + 1]
    IN  [p \in 1..Len(array) |->
            [zdd_id |-> zdd_id,
             thesis_number |-> ThesisNumber(zdd_id),
             magic_number |-> s.magic_number,
             array_index |-> array_idx,
             array_length |-> Len(array),
             array_elements |-> ArrayText(array),
             array_signature_sorted |-> ArrayText(SortedCall(array).ret),
             element_position |-> p - 1,
             element_value |-> array[p]]]

\* the data rows of generate_complete_csv
CompleteRows(d) ==
    LET ids == sorted(DictKeys(d))
    IN  Flatten([k \in 1..Len(ids) |->
            LET s == DictGet(d, ids[k])
            IN  Flatten([a \in 1..Len(s.arrays) |->
                             CompleteRowsOfArray(ids[k], s, a - 1)])])

\* the summary row with unique_elements = len(array), without set()
SummaryRowCountingRepeats(zdd_id, s, array_idx) ==
    LET array == s.arrays[array_idx + 1]
    IN  [zdd_id |-> zdd_id,
         thesis_number |-> ThesisNumber(zdd_id),
         magic_number |-> s.magic_number,
         array_index |-> array_idx,
         array_length |-> Len(array),
         array_elements |-> ArrayText(array),
         array_signature_sorted |-> ArrayText(SortedCall(array).ret),
         unique_elements |-> Len(array),
         min_element |-> IF array # <<>> THEN Min(Range(array)) ELSE 0,
         max_element |-> IF array # <<>> THEN Max(Range(array)) ELSE 0]

\* the row generate_array_summary_csv writes for array array_idx (0-based)
SummaryRowOfArray(zdd_id, s, array_idx) ==
    LET array == s.arrays[array_idx + 1]
    IN  [zdd_id |-> zdd_id,
         thesis_number |-> ThesisNumber(zdd_id),
         magic_number |-> s.magic_number,
         array_index |-> array_idx,
         array_length |-> Len(array),
         array_elements |-> ArrayText(array),
         array_signature_sorted |-> ArrayText(SortedCall(array).ret),
         unique_elements |-> Cardinality(Range(array)),
         min_element |-> IF array # <<>> THEN Min(Range(array)) ELSE 0,
         max_element |-> IF array # <<>> THEN Max(Range(array)) ELSE 0]

\* the summary rows with the arrays that have no element left out
SummaryRowsSkippingEmpty(d) ==
    LET ids == sorted(DictKeys(d))
    IN  Flatten([k \in 1..Len(ids) |->
            LET s == DictGet(d, ids[k])
            IN  Flatten([a \in 1..Len(s.arrays) |->
                    IF s.arrays[a] = <<>> THEN <<>>
                    ELSE <<SummaryRowOfArray(ids[k], s, a - 1)>>])])

\* the data rows of generate_array_summary_csv
SummaryRows(d) ==
    LET ids == sorted(DictKeys(d))
    IN  Flatten([k \in 1..Len(ids) |->
            LET s == DictGet(d, ids[k])
            IN  [a \in 1..Len(s.arrays) |-> SummaryRowOfArray(ids[k], s, a - 1)]])

\* the pattern of an array, keyed by the array as it stands (unsorted)
PatternUnsorted(array) == array

\* pattern = tuple(sorted(array))
Pattern(array) == SortedCall(array).ret

\* every (pattern, (zdd_id, array_idx)) in the order the collecting loop meets them
Occurrences(d) ==
    Flatten([k \in 1..Len(d) |->
        [a \in 1..Len(d[k].val.arrays) |->
            [pattern |-> Pattern(d[k].val.arrays[a]),
             occ |-> <<d[k].key, a - 1>>]]])

\* pattern_occurrences[pattern] = [occ]: each occurrence replaces the list
RECURSIVE CollectLast(_, _)
CollectLast(occs, acc) ==
    IF occs = <<>> THEN acc
    ELSE CollectLast(Tail(occs), DictSet(acc, occs[1].pattern, <<occs[1].occ>>))

\* pattern_occurrences[pattern].append(occ) for each occurrence in turn
RECURSIVE Collect(_, _)
Collect(occs, acc) ==
    IF occs = <<>> THEN acc
    ELSE LET o == occs[1]
             sofar == IF DictHas(acc, o.pattern) THEN DictGet(acc, o.pattern) ELSE <<>>
         IN  Collect(Tail(occs), DictSet(acc, o.pattern, Append(sofar, o.occ)))

PatternOccurrences(d) == Collect(Occurrences(d), <<>>)

\* sorted(items, key=lambda x: len(x[1]), reverse=True): stable, longest first
RECURSIVE InsertByFrequency(_, _)
InsertByFrequency(e, es) ==
    IF es = <<>> THEN <<e>>
    ELSE IF Len(e.val) >= Len(es[1].val) THEN <<e>> \o es
    ELSE <<es[1]>> \o InsertByFrequency(e, Tail(es))

RECURSIVE SortByFrequency(_)
SortByFrequency(es) ==
    IF es = <<>> THEN <<>>
    ELSE InsertByFrequency(es[1], SortByFrequency(Tail(es)))

\* the row generate_pattern_analysis_csv writes for one pattern
PatternRow(e) ==
    LET unique_zdds == sorted(SetToSeqOfInts({e.val[i][1] : i \in 1..Len(e.val)}))
    IN  [array_signature |-> ArrayText(e.key),
         frequency_across_zdds |-> Len(e.val),
         zdd_occurrences |-> join(<<",">>, [i \in 1..Len(unique_zdds) |->
                                               str(unique_zdds[i])]),
         first_seen_zdd |-> Min(Range(unique_zdds)),
         array_length |-> Len(e.key),
         unique_elements |-> Cardinality(Range(e.key))]

\* the data rows of generate_pattern_analysis_csv
PatternRows(d) ==
    LET es == SortByFrequency(PatternOccurrences(d))
    IN  [i \in 1..Len(es) |-> PatternRow(es[i])]

ZeroDivisionError == "ZeroDivisionError"

\* main() up to and including analyzer.load_zdd_files(directory)
LoadZddFiles ==
    /\ pc = "idle"
    /\ LET files == SortedNames(DOMAIN bin)
           done == LoadLoop(bin, files, 1, <<>>, <<>>)
       IN  /\ call' = [op |-> "load_zdd_files", files |-> files]
           /\ IF files = <<>>
              THEN /\ result' = Raise(FileNotFoundError)
                   /\ pc' = "exit1"
                   /\ UNCHANGED <<zdds, reported>>
              ELSE /\ zdds' = done.zdds
                   /\ reported' = done.printed
                   /\ IF done.raised
                      THEN result' = Raise(DecodeError) /\ pc' = "exit1"
                      ELSE result' = result /\ pc' = "loaded"
    /\ UNCHANGED <<bin, structure, text_out, reparsed, complete_csv, summary_csv,
                   pattern_csv, batchVars>>

\* generate_complete_csv, run at position `from` and leaving the command at `to`
GenerateCompleteCsv(from, to) ==
    /\ pc = from
    /\ pc' = to
    /\ complete_csv' = Ok(CompleteRows(zdds))
    /\ zdds' = AfterSortedPass(zdds)
    /\ UNCHANGED <<bin, call, convVars, reported, summary_csv, pattern_csv, batchVars>>

\* generate_array_summary_csv
GenerateArraySummaryCsv(from, to) ==
    /\ pc = from
    /\ pc' = to
    /\ summary_csv' = Ok(SummaryRows(zdds))
    /\ zdds' = AfterSortedPass(zdds)
    /\ UNCHANGED <<bin, call, convVars, reported, complete_csv, pattern_csv, batchVars>>

\* generate_pattern_analysis_csv
GeneratePatternAnalysisCsv(from, to) ==
    /\ pc = from
    /\ pc' = to
    /\ pattern_csv' = Ok(PatternRows(zdds))
    /\ zdds' = AfterSortedPass(zdds)
    /\ UNCHANGED <<bin, call, convVars, reported, complete_csv, summary_csv, batchVars>>

TotalArrays(d) == Len(Occurrences(d))

\* print_summary: it divides the element total by the array total
PrintSummary(from, to_ok, to_raise) ==
    /\ pc = from
    /\ IF TotalArrays(zdds) = 0
       THEN result' = Raise(ZeroDivisionError) /\ pc' = to_raise
       ELSE result' = Ok(0) /\ pc' = to_ok
    /\ zdds' = AfterSortedPass(zdds)
    /\ UNCHANGED <<bin, call, structure, text_out, reparsed, reported,
                   complete_csv, summary_csv, pattern_csv, batchVars>>

\* _write_arrays_to_text on the arrays of a loaded structure
ExportText(zdd_id) ==
    /\ pc = "loaded"
    /\ DictHas(zdds, zdd_id)
    /\ text_out' = Ok(WriteArraysToText(DictGet(zdds, zdd_id).arrays))
    /\ UNCHANGED <<bin, pc, call, structure, result, reparsed, csvVars, batchVars>>

(***************************************************************************)
(* batch_evaluation_manager.py: BatchEvaluationManager                     *)
(*                                                                         *)
(* index is the list index['batches']; a batch's status is a dict from     *)
(* evaluator name to "pending" or "completed".                             *)
(***************************************************************************)
IndexEvaluators == {"evaluator_1", "evaluator_2"}  \* the evaluators of the index
EvaluatorNames == IndexEvaluators \cup {"evaluator_3"}

\* the index as it is set up: every batch pending for both evaluators
NewIndex(nb) ==
    [i \in 1..nb |->
        [batch_number |-> i,
         thesis_ids |-> <<i>>,
         status |-> [e \in IndexEvaluators |-> "pending"]]]

\* a filled-in batch evaluation for batch n by evaluator e
BatchData(n, e) ==
    [batch_number |-> n,
     evaluator |-> e,
     thesis_ids |-> <<n>>,
     thesis_evaluations |-> <<[thesis_id |-> n, rated_by |-> e]>>]

ReturnedNone == [tag |-> "returned_none", val |-> <<>>]

\* batch['status'].get(evaluator_name) == 'pending': no entry counts as not pending
RECURSIVE GetNextLoopLenient(_, _, _)
GetNextLoopLenient(batches, i, evaluator_name) ==
    IF i > Len(batches) THEN ReturnedNone
    ELSE IF evaluator_name \in DOMAIN batches[i].status
            /\ batches[i].status[evaluator_name] = "pending"
    THEN Ok(batches[i].batch_number)
    ELSE GetNextLoopLenient(batches, i + 1, evaluator_name)

\* the loop of get_next_batch from list position i (1-based)
RECURSIVE GetNextLoop(_, _, _)
GetNextLoop(batches, i, evaluator_name) ==
    IF i > Len(batches) THEN ReturnedNone
    ELSE IF evaluator_name \notin DOMAIN batches[i].status THEN Raise(KeyError)
    ELSE IF batches[i].status[evaluator_name] = "pending"
    THEN Ok(batches[i].batch_number)
    ELSE GetNextLoop(batches, i + 1, evaluator_name)

\* get_next_batch(evaluator_name)
GetNextBatch(evaluator_name) ==
    /\ pc = "idle"
    /\ call' = [op |-> "get_next_batch", evaluator |-> evaluator_name]
    /\ ret' = GetNextLoop(index, 1, evaluator_name)
    /\ UNCHANGED <<pc, index, index_file, batch_files, zddVars>>

\* status[evaluator_name] = 'completed'
SetCompleted(status, evaluator_name) ==
    [e \in DOMAIN status \cup {evaluator_name} |->
        IF e = evaluator_name THEN "completed" ELSE status[e]]

\* the status update without the batch-number test: every batch is marked
UpdateStatusEveryBatch(batches, batch_num, evaluator_name) ==
    [i \in 1..Len(batches) |->
        [batches[i] EXCEPT !.status = SetCompleted(@, evaluator_name)]]

\* the loop of save_batch: the first batch with that number is marked, then break
UpdateStatus(batches, batch_num, evaluator_name) ==
    LET hits == {i \in 1..Len(batches) : batches[i].batch_number = batch_num}
    IN  IF hits = {} THEN batches
        ELSE [batches EXCEPT ![Min(hits)].status = SetCompleted(@, evaluator_name)]

\* save_index(): json.dump of the index, which holds JSON values only
SaveIndex(batches) == batches

\* dict assignment on the files of the evaluations directory
WriteFile(files, path, data) ==
    [q \in DOMAIN files \cup {path} |-> IF q = path THEN data ELSE files[q]]

\* save_batch(batch_data, evaluator_name)
SaveBatch(batch_data, evaluator_name) ==
    /\ pc = "idle"
    /\ call' = [op |-> "save_batch", evaluator |-> evaluator_name,
                batch_data |-> batch_data]
    /\ batch_files' = WriteFile(batch_files,
                                <<evaluator_name, batch_data.batch_number>>,
                                batch_data)
    /\ index' = UpdateStatus(index, batch_data.batch_number, evaluator_name)
    /\ index_file' = SaveIndex(index')
    /\ ret' = Ok(<<evaluator_name, batch_data.batch_number>>)
    /\ UNCHANGED <<pc, zddVars>>

(***************************************************************************)
(* The files of evaluations/: <<e, n>> is evaluations/<e>/batch_<n>.json,  *)
(* <<e, n, "template">> is evaluations/<e>/batch_<n>_template.json.        *)
(***************************************************************************)
TemplateKey(evaluator, batch_number) == <<evaluator, batch_number, "template">>

\* the name of a file inside its evaluator directory
FileName(key) ==
    <<"b", "a", "t", "c", "h", "_">> \o str(key[2])
    \o (IF Len(key) = 2 THEN <<>>
        ELSE <<"_", "t", "e", "m", "p", "l", "a", "t", "e">>)
    \o <<".", "j", "s", "o", "n">>

\* evaluator_dir.exists()
EvaluatorDirExists(files, evaluator) ==
    \E k \in DOMAIN files : k[1] = evaluator

\* evaluator_dir.glob("batch_*.json"): every file of the directory matches
GlobBatchFiles(files, evaluator) ==
    {k \in DOMAIN files : k[1] = evaluator}

\* sorted(...) of the globbed paths, compared as text
RECURSIVE SortedPaths(_)
SortedPaths(keys) ==
    IF keys = {} THEN <<>>
    ELSE LET least == CHOOSE k \in keys :
                          \A m \in keys \ {k} : TextLess(FileName(k), FileName(m))
         IN  <<least>> \o SortedPaths(keys \ {least})

\* the loop of merge_all_batches: all_evaluations after the last file
MergeLoop(batches, files, evaluator_name) ==
    LET paths == SortedPaths(GlobBatchFiles(files, evaluator_name))
    IN  Flatten([i \in 1..Len(paths) |-> files[paths[i]].thesis_evaluations])

\* merge_all_batches(evaluator_name); the merged file evaluations/<e>_complete.json
\* is read by no operation of the manager and is kept in ret
MergeAllBatches(evaluator_name) ==
    /\ pc = "idle"
    /\ call' = [op |-> "merge_all_batches", evaluator |-> evaluator_name]
    /\ LET all_evaluations == MergeLoop(index, batch_files, evaluator_name)
       IN  ret' = Ok([evaluator |-> evaluator_name,
                      total_theses_evaluated |-> Len(all_evaluations),
                      thesis_evaluations |-> all_evaluations])
    /\ UNCHANGED <<pc, index, index_file, batch_files, zddVars>>

\* get_batch_info(batch_number)
GetBatchInfo(batches, batch_number) ==
    LET hits == {i \in 1..Len(batches) : batches[i].batch_number = batch_number}
    IN  IF hits = {} THEN Nothing ELSE Ok(batches[Min(hits)])

\* create_batch_template(batch_number, evaluator) for a batch of the index
Template(batch_info, evaluator) ==
    [batch_number |-> batch_info.batch_number,
     evaluator |-> evaluator,
     thesis_ids |-> batch_info.thesis_ids,
     thesis_evaluations |->
        [i \in 1..Len(batch_info.thesis_ids) |->
            [thesis_id |-> batch_info.thesis_ids[i], rated_by |-> "TODO"]]]

\* the `template` command of main
CreateTemplate(batch_num, evaluator) ==
    /\ pc = "idle"
    /\ call' = [op |-> "template", evaluator |-> evaluator, batch_number |-> batch_num]
    /\ LET batch_info == GetBatchInfo(index, batch_num)
       IN  IF batch_info.tag # "ok"
           THEN ret' = ReturnedNone /\ UNCHANGED batch_files
           ELSE IF ~EvaluatorDirExists(batch_files, evaluator)
           THEN ret' = Raise(FileNotFoundError) /\ UNCHANGED batch_files
           ELSE /\ batch_files' = WriteFile(batch_files,
                                            TemplateKey(evaluator, batch_num),
                                            Template(batch_info.val, evaluator))
                /\ ret' = Ok(TemplateKey(evaluator, batch_num))
    /\ UNCHANGED <<pc, index, index_file, zddVars>>

(***************************************************************************)
(* generate_batch_skeletons.py: main                                       *)
(***************************************************************************)
\* generate_skeleton_for_batch: every thesis of the batch, not yet rated
Skeleton(batch_info, evaluator) ==
    [batch_number |-> batch_info.batch_number,
     evaluator |-> evaluator,
     thesis_ids |-> batch_info.thesis_ids,
     thesis_evaluations |->
        [i \in 1..Len(batch_info.thesis_ids) |->
            [thesis_id |-> batch_info.thesis_ids[i], rated_by |-> "nobody"]]]

\* the evaluators of main: directory key and the name written into the files
evaluators ==
    [evaluator_1 |-> "Claude Sonnet 4.5", evaluator_2 |-> "Gemini-2.5-Pro"]

\* the batch of the index that is written last under a batch number
LastBatchNumbered(batches, batch_number) ==
    batches[Max({i \in 1..Len(batches) : batches[i].batch_number = batch_number})]

\* main: a skeleton batch_<n>.json for every batch of the index and both
\* evaluators, once the index and the WIT file have been read
GenerateSkeletons(wit_file_exists) ==
    /\ pc = "idle"
    /\ call' = [op |-> "generate_batch_skeletons"]
    /\ IF ~wit_file_exists
       THEN /\ ret' = Raise(FileNotFoundError)
            /\ UNCHANGED batch_files
       ELSE /\ LET written == {<<e, index_file[i].batch_number>> :
                                  e \in DOMAIN evaluators, i \in 1..Len(index_file)}
                   info(k) == LastBatchNumbered(index_file, k[2])
               IN  batch_files' =
                       [k \in DOMAIN batch_files \cup written |->
                           IF k \in written THEN Skeleton(info(k), evaluators[k[1]])
                           ELSE batch_files[k]]
            /\ ret' = Nothing
    /\ UNCHANGED <<pc, index, index_file, zddVars>>

(***************************************************************************)
(* analyze_evaluations.py                                                  *)
(*                                                                         *)
(* An evaluation map is a dict from clause id to a record with the         *)
(* clause's rating; "" is a clause not rated yet.                          *)
(***************************************************************************)
ClauseId(n) == <<"c">> \o str(n)
\* clause ids whose text order differs from the order of their numbers
ClauseIds == {ClauseId(n) : n \in (1..(MaxClauses - 1)) \cup {10}}

\* what an evaluator may have typed as a rating
Ratings == {"", "accept", "revise", "reject", "Accept"}
KappaRatings == {"", "accept", "revise"}

EvaluationMaps(ratings) ==
    UNION {[keys -> [rating : ratings]] : keys \in SUBSET ClauseIds}

\* the loop of compute_cohens_kappa without the `if r1 and r2` test
KappaLoopUnfiltered(eval1, eval2, clause_ids) ==
    [i \in 1..Len(clause_ids) |->
        <<eval1[clause_ids[i]].rating, eval2[clause_ids[i]].rating>>]

\* the loop of compute_cohens_kappa: the pairs <<r1, r2>> appended, in order
KappaLoop(eval1, eval2, clause_ids) ==
    LET pair(c) == <<eval1[c].rating, eval2[c].rating>>
        all == [i \in 1..Len(clause_ids) |-> pair(clause_ids[i])]
    IN  SelectSeq(all, LAMBDA rs : rs[1] # "" /\ rs[2] # "")

\* compute_cohens_kappa(eval1, eval2); the score of sklearn is not computed
compute_cohens_kappa(eval1, eval2) ==
    LET common_clauses == DOMAIN eval1 \cap DOMAIN eval2
        none == [kappa |-> "None", ratings1 |-> <<>>, ratings2 |-> <<>>]
    IN  IF common_clauses = {} THEN none
        ELSE LET pairs == KappaLoop(eval1, eval2, SortedNames(common_clauses))
             IN  IF pairs = <<>> THEN none
                 ELSE [kappa |-> "cohen_kappa_score",
                       ratings1 |-> [i \in 1..Len(pairs) |-> pairs[i][1]],
                       ratings2 |-> [i \in 1..Len(pairs) |-> pairs[i][2]]]

ComputeCohensKappa(eval1, eval2) ==
    /\ pc = "idle"
    /\ pc' = "returned"
    /\ call' = [op |-> "compute_cohens_kappa", eval1 |-> eval1, eval2 |-> eval2]
    /\ ret' = Ok(compute_cohens_kappa(eval1, eval2))
    /\ UNCHANGED <<index, index_file, batch_files, zddVars>>

\* Counter(ratings)[label]
CounterOf(evaluations, label) ==
    Cardinality({c \in DOMAIN evaluations : evaluations[c].rating = label})

ReturnedEmptyDict == [tag |-> "empty_dict", val |-> <<>>]

\* compute_model_quality(evaluations); a rate x / total * 100 is kept as <<x * 100, total>>
compute_model_quality(evaluations) ==
    LET total == Cardinality({c \in DOMAIN evaluations : evaluations[c].rating # ""})
        accept == CounterOf(evaluations, "accept")
        revise == CounterOf(evaluations, "revise")
        reject == CounterOf(evaluations, "reject")
    IN  IF total = 0 THEN ReturnedEmptyDict
        ELSE Ok([total_clauses |-> total,
                 accept_count |-> accept,
                 revise_count |-> revise,
                 reject_count |-> reject,
                 accept_rate |-> <<accept * 100, total>>,
                 revise_rate |-> <<revise * 100, total>>,
                 reject_rate |-> <<reject * 100, total>>,
                 error_rate |-> <<(revise + reject) * 100, total>>])

ComputeModelQuality(evaluations) ==
    /\ pc = "idle"
    /\ pc' = "returned"
    /\ call' = [op |-> "compute_model_quality", evaluations |-> evaluations]
    /\ ret' = compute_model_quality(evaluations)
    /\ UNCHANGED <<index, index_file, batch_files, zddVars>>

(***************************************************************************)
(* generate_batch_skeletons.py: extract_thesis_info_from_wit               *)
(***************************************************************************)
\* needle in line
Contains(line, needle) ==
    \E i \in 1..(Len(line) - Len(needle) + 1) :
        SubSeq(line, i, i + Len(needle) - 1) = needle

\* text.split(c) for a one-character separator, piece by piece
SplitOn(text, c) ==
    LET seps == {i \in 1..Len(text) : text[i] = c}
        sep(k) == IF k = 0 THEN 0
                  ELSE IF k > Cardinality(seps) THEN Len(text) + 1
                  ELSE CHOOSE i \in seps : Cardinality({j \in seps : j <= i}) = k
    IN  [k \in 1..(Cardinality(seps) + 1) |->
            SubSeq(text, sep(k - 1) + 1, sep(k) - 1)]

UpperCase == {"A", "B", "C", "D", "E", "F", "G", "H", "I", "J", "K", "L", "M", "N", "O", "P", "Q", "R", "S", "T", "U", "V", "W", "X", "Y", "Z"}
\* the letters and numbers of Latin-1 beyond ASCII (str.isalnum())
Latin1WordChars == {"\\xaa", "\\xb2", "\\xb3", "\\xb5", "\\xb9", "\\xba", "\\xbc",
                    "\\xbd", "\\xbe", "\\xc0", "\\xc1", "\\xc2", "\\xc3", "\\xc4",
                    "\\xc5", "\\xc6", "\\xc7", "\\xc8", "\\xc9", "\\xca", "\\xcb",
                    "\\xcc", "\\xcd", "\\xce", "\\xcf", "\\xd0", "\\xd1", "\\xd2",
                    "\\xd3", "\\xd4", "\\xd5", "\\xd6", "\\xd8", "\\xd9", "\\xda",
                    "\\xdb", "\\xdc", "\\xdd", "\\xde", "\\xdf", "\\xe0", "\\xe1",
                    "\\xe2", "\\xe3", "\\xe4", "\\xe5", "\\xe6", "\\xe7", "\\xe8",
                    "\\xe9", "\\xea", "\\xeb", "\\xec", "\\xed", "\\xee", "\\xef",
                    "\\xf0", "\\xf1", "\\xf2", "\\xf3", "\\xf4", "\\xf5", "\\xf6",
                    "\\xf8", "\\xf9", "\\xfa", "\\xfb", "\\xfc", "\\xfd", "\\xfe",
                    "\\xff"}
\* \w in a str pattern: "_" and every alphanumeric character
WordChars ==
    (Range(Alphabet) \ {"."}) \cup UpperCase \cup Latin1WordChars
        \cup {ArabicIndicDigits[d] : d \in 1..10}
\* \s in a str pattern
SpaceChars == Whitespace

\* the length of the longest prefix of s made of characters of chars
RunLength(s, chars) ==
    IF \A i \in 1..Len(s) : s[i] \in chars THEN Len(s)
    ELSE Min({i \in 1..Len(s) : s[i] \notin chars}) - 1

ThesisMarker == <<"/", "/", " ", "T", "H", "E", "S", "I", "S", " ">>
StopMarker == <<"/", "/", " ", "T", "H", "E", "S", "I", "S">>
HeaderOf(thesis_id) == ThesisMarker \o str(thesis_id) \o <<":">>
ClausePrefix(thesis_id) == <<"c", "l", "a", "u", "s", "e", " ", "t", "e", "s", "i", "s">> \o str(thesis_id) \o <<"_">>

\* re.match(rf'clause (tesis{thesis_id}_\w+)\s*=\s*(.+);', line): the two groups
ClauseMatch(line, thesis_id) ==
    LET prefix == ClausePrefix(thesis_id)
    IN  IF ~(Len(line) >= Len(prefix) /\ SubSeq(line, 1, Len(prefix)) = prefix)
        THEN Nothing
        ELSE LET rest == SubSeq(line, Len(prefix) + 1, Len(line))
                 word == RunLength(rest, WordChars)
                 after == SubSeq(rest, word + 1, Len(rest))
                 gap == RunLength(after, SpaceChars)
             IN  IF word = 0 \/ gap >= Len(after) \/ after[gap + 1] # "="
                 THEN Nothing
                 ELSE LET value == SubSeq(after, gap + 2, Len(after))
                          semis == {i \in 2..Len(value) : value[i] = ";"}
                      IN  IF semis = {} THEN Nothing
                          ELSE LET last == Max(semis)
                                   skip == Min({RunLength(value, SpaceChars), last - 2})
                               IN  Ok([clause_id |->
                                           SubSeq(line, Len(<<"c", "l", "a", "u", "s", "e", " ">>) + 1,
                                                  Len(prefix) + word),
                                       clause_content |->
                                           SubSeq(value, skip + 1, last - 1)])

\* re.search(r'// THESIS \d+: (.+)', title_line), else "Unknown Title"
ThesisTitle(title_line) ==
    LET starts == {i \in 1..Len(title_line) :
                      LET from == SubSeq(title_line, i, Len(title_line))
                      IN  /\ Len(from) >= Len(ThesisMarker)
                          /\ SubSeq(from, 1, Len(ThesisMarker)) = ThesisMarker
                          /\ LET tail == SubSeq(from, Len(ThesisMarker) + 1, Len(from))
                                 digits == RunLength(tail, DecimalChars)
                             IN  /\ digits >= 1
                                 /\ Len(tail) >= digits + 3
                                 /\ SubSeq(tail, digits + 1, digits + 2) = <<":", " ">>}
    IN  IF starts = {} THEN <<"U", "n", "k", "n", "o", "w", "n", " ", "T", "i", "t", "l", "e">>
        ELSE LET from == SubSeq(title_line, Min(starts) + Len(ThesisMarker),
                                Len(title_line))
                 digits == RunLength(from, DecimalChars)
             IN  SubSeq(from, digits + 3, Len(from))

\* a clause found on line current_line (0-based)
ClauseEntry(found, current_line) ==
    [clause_id |-> found.val.clause_id,
     clause_line |-> current_line + 1,
     clause_content |-> found.val.clause_content,
     rating |-> <<>>,
     justification |-> <<>>]

\* the while loop that runs on past the next thesis to the end of the file
RECURSIVE ClauseLoopToEnd(_, _, _, _, _)
ClauseLoopToEnd(lines, thesis_id, thesis_start, current_line, clauses) ==
    IF current_line >= Len(lines)
    THEN [clauses |-> clauses, current_line |-> current_line]
    ELSE LET found == ClauseMatch(lines[current_line + 1], thesis_id)
         IN  ClauseLoopToEnd(lines, thesis_id, thesis_start, current_line + 1,
                 IF found.tag = "ok"
                 THEN Append(clauses, ClauseEntry(found, current_line))
                 ELSE clauses)

\* the while loop of extract_thesis_info_from_wit from current_line (0-based)
RECURSIVE ClauseLoop(_, _, _, _, _)
ClauseLoop(lines, thesis_id, thesis_start, current_line, clauses) ==
    IF current_line >= Len(lines)
    THEN [clauses |-> clauses, current_line |-> current_line]
    ELSE LET line == lines[current_line + 1]
         IN  IF current_line > thesis_start /\ Contains(line, StopMarker)
                /\ Contains(line, ThesisMarker)
             THEN [clauses |-> clauses, current_line |-> current_line]
             ELSE LET found == ClauseMatch(line, thesis_id)
                  IN  ClauseLoop(lines, thesis_id, thesis_start, current_line + 1,
                          IF found.tag = "ok"
                          THEN Append(clauses, ClauseEntry(found, current_line))
                          ELSE clauses)

\* extract_thesis_info_from_wit(wit_content, thesis_id)
extract_thesis_info_from_wit(wit_content, thesis_id) ==
    LET lines == SplitOn(wit_content, "\n")
        hits == {i \in 0..(Len(lines) - 1) : Contains(lines[i + 1], HeaderOf(thesis_id))}
    IN  IF hits = {} THEN ReturnedNone
        ELSE LET thesis_start == Min(hits)
                 done == ClauseLoop(lines, thesis_id, thesis_start, thesis_start, <<>>)
                 wit_end == done.current_line
             IN  Ok([thesis_title |-> ThesisTitle(lines[thesis_start + 1]),
                     wit_lines |-> str(thesis_start + 1) \o <<"-">> \o str(wit_end),
                     clauses |-> done.clauses])

\* the lines a WIT file is made of
WitLines ==
    {<<"/", "/", " ", "T", "H", "E", "S", "I", "S", " ", "1", ":", " ", "A">>,
     <<"/", "/", " ", "T", "H", "E", "S", "I", "S", " ", "1", "1", ":", " ", "B">>,
     <<"c", "l", "a", "u", "s", "e", " ", "t", "e", "s", "i", "s", "1", "_", "a", " ", "=", " ", "p", ";">>,
     <<"c", "l", "a", "u", "s", "e", " ", "t", "e", "s", "i", "s", "1", "1", "_", "\\xe9", "\f", "=", "\\x0b", "q", ";">>,
     <<" ", "c", "l", "a", "u", "s", "e", " ", "t", "e", "s", "i", "s", "1", "_", "b", " ", "=", " ", "r", ";">>,
     <<"c", "l", "a", "u", "s", "e", " ", "t", "e", "s", "i", "s", "1", "_", "c", " ", "=", " ", "s", ";", " ", "/", "/", " ", "T", "H", "E", "S", "I", "S", " ", "1", ":", " ", "C">>}

WitFiles == UNION {[1..n -> WitLines] : n \in 0..MaxWitLines}
ThesisIds == {1, 11}

ExtractThesisInfoFromWit(file_lines, thesis_id) ==
    /\ pc = "idle"
    /\ pc' = "returned"
    /\ call' = [op |-> "extract_thesis_info_from_wit",
                wit_content |-> join(<<"\n">>, file_lines),
                thesis_id |-> thesis_id]
    /\ ret' = extract_thesis_info_from_wit(call'.wit_content, thesis_id)
    /\ UNCHANGED <<index, index_file, batch_files, zddVars>>

(***************************************************************************)
(* Initial states and specifications.                                      *)
(***************************************************************************)
\* The directory holds at most n arrays in all; zdd_12.bin may be truncated.
InitWith(n) ==
    /\ \E s1 \in Structures(n) :
       \E s2 \in Structures(n - Len(s1.arrays)) :
       \E present \in SUBSET BinNames :
       \E cut \in {{}, {BinName(12)}} :
           bin = Dir(s1, s2, present, cut)
    /\ pc = "idle"
    /\ call = [op |-> "none", files |-> <<>>]
    /\ structure = Nothing
    /\ text_out = Nothing
    /\ result = Nothing
    /\ reparsed = <<>>
    /\ zdds = <<>>
    /\ reported = <<>>
    /\ complete_csv = Nothing
    /\ summary_csv = Nothing
    /\ pattern_csv = Nothing
    /\ index = <<>>
    /\ index_file = <<>>
    /\ batch_files = <<>>
    /\ ret = Nothing

Init == InitWith(MaxArrays)

\* BatchEvaluationManager(): the index loaded from evaluations/batch_index.json
InitBatch ==
    /\ bin = <<>>
    /\ pc = "idle"
    /\ call = [op |-> "none"]
    /\ structure = Nothing
    /\ text_out = Nothing
    /\ result = Nothing
    /\ reparsed = <<>>
    /\ zdds = <<>>
    /\ reported = <<>>
    /\ complete_csv = Nothing
    /\ summary_csv = Nothing
    /\ pattern_csv = Nothing
    /\ \E nb \in 0..MaxBatches :
           /\ index_file = NewIndex(nb)
           /\ index = index_file
    /\ batch_files = <<>>
    /\ ret = Nothing

NextText ==
    \/ \E f \in BinNames : ConvertBinaryToText(f)
    \/ \E fs \in FileLists : ConvertMultipleBinaryFiles(fs)
    \/ \E listing \in Listings(DOMAIN bin) : ConvertZddBinaryDirectory(listing)
    \/ \E listing \in Listings(DOMAIN bin) :
          \E witness \in WitnessOutcomes : ConvertJobDirectory(listing, witness)
    \/ Reparse

SpecText == Init /\ [][NextText]_vars

\* main() of zdd_to_csv_correct.py: load, the three CSV files, the summary
NextCsv ==
    \/ LoadZddFiles
    \/ GenerateCompleteCsv("loaded", "complete")
    \/ GenerateArraySummaryCsv("complete", "summary")
    \/ GeneratePatternAnalysisCsv("summary", "pattern")
    \/ PrintSummary("pattern", "exit0", "exit1")

SpecCsv == Init /\ [][NextCsv]_vars

\* the analyzer as a library: after the load, its methods in any order
InitLib == InitWith(MaxLibArrays)

NextLib ==
    \/ LoadZddFiles
    \/ GenerateCompleteCsv("loaded", "loaded")
    \/ GenerateArraySummaryCsv("loaded", "loaded")
    \/ GeneratePatternAnalysisCsv("loaded", "loaded")
    \/ PrintSummary("loaded", "loaded", "loaded")
    \/ \E id \in ZddNums : ExportText(id)

SpecLib == InitLib /\ [][NextLib]_vars

(***************************************************************************)
(* Properties of the text converter.                                       *)
(***************************************************************************)
Count(c, text) == Cardinality({i \in 1..Len(text) : text[i] = c})

\* the elements of array up to position k, in array order, comma separated
RECURSIVE ElementsText(_, _)
ElementsText(array, k) ==
    IF k = 0 THEN <<>>
    ELSE ElementsText(array, k - 1)
         \o (IF k > 1 THEN <<",">> ELSE <<>>) \o str(array[k])

ConvertedOk == pc \in {"single", "reparsed"} /\ result.tag = "ok"

\* C1: the arrays written by _write_arrays_to_text, re-parsed line by line with
\* parse_assignment, are the arrays that were written: same number, same order,
\* same elements in the same order, empty arrays included.
C1_TextRoundTrip ==
    pc = "reparsed" =>
        /\ Len(reparsed) = Len(structure.val.arrays)
        /\ \A i \in 1..Len(reparsed) :
               /\ reparsed[i].tag = "ok"
               /\ reparsed[i].val = structure.val.arrays[i]

C1_Witness ==
    /\ pc = "reparsed"
    /\ Len(reparsed) = 2
    /\ structure.val.arrays[1] = <<>>
    /\ structure.val.arrays[2] = <<12, -3>>

\* C2: the single-file export holds one line per decoded array, in array order;
\* line n is '[' + the n-th array's elements in their original order joined by
\* ',' + ']', an empty array giving '[]'.
C2_OneLinePerArray ==
    ConvertedOk =>
        LET lines == splitlines(text_out.val)
            arrays == structure.val.arrays
        IN  /\ Len(lines) = Len(arrays)
            /\ Count("\n", text_out.val) = Len(arrays)
            /\ \A n \in 1..Len(arrays) :
                   /\ lines[n] = <<"[">> \o ElementsText(arrays[n], Len(arrays[n]))
                                 \o <<"]">>
                   /\ arrays[n] = <<>> => lines[n] = <<"[", "]">>

C2_Witness ==
    /\ pc = "single"
    /\ result.tag = "ok"
    /\ structure.val.arrays = <<<<12, -3>>, <<>>>>
    /\ splitlines(text_out.val) = << <<"[", "1", "2", ",", "-", "3", "]">>, <<"[", "]">> >>

SomeMissing == \E i \in 1..Len(call.files) : call.files[i] \notin DOMAIN bin
AllPresentLoad ==
    \A i \in 1..Len(call.files) :
        call.files[i] \in DOMAIN bin => Load(bin[call.files[i]]).tag = "ok"

\* C6 as stated: a missing input file makes either conversion fail.
C6_MissingInputFatal ==
    (pc \in {"single", "multi"} /\ SomeMissing) =>
        (result.tag = "raise" /\ ExitStatus(result) = 1)

\* C6 amended: a missing file is fatal for convert_binary_to_text
\* (FileNotFoundError, non-zero exit, nothing written); convert_multiple_binary_files
\* skips a missing file of its list and still returns the output path, failing
\* only when load() fails for a file that exists.
C6_MissingInputSingleFatalMultiSkipped ==
    /\ (pc = "single" /\ SomeMissing) =>
           /\ result.tag = "raise"
           /\ result.val = FileNotFoundError
           /\ ExitStatus(result) = 1
           /\ text_out.tag = "none"
    /\ (pc = "multi" /\ SomeMissing) =>
           /\ result.tag = "ok" <=> AllPresentLoad
           /\ result.tag = "ok" => result.val = VectorsName /\ text_out.tag = "ok"
           /\ result.tag = "raise" => result.val = DecodeError

C6_Witness ==
    /\ pc = "multi"
    /\ call.files = <<BinName(1), BinName(12)>>
    /\ BinName(1) \notin DOMAIN bin
    /\ BinName(12) \in DOMAIN bin
    /\ result.tag = "ok"
    /\ Len(text_out.val) > 0

(***************************************************************************)
(* Properties of the CSV analyzer.                                         *)
(***************************************************************************)
\* the (zdd_id, array_index) of every array of the loaded ZDDs
ArrayKeys(d) ==
    UNION {{<<d[k].key, a - 1>> : a \in 1..Len(d[k].val.arrays)} : k \in 1..Len(d)}
ArrayAt(d, key) == DictGet(d, key[1]).arrays[key[2] + 1]
EmptyKeys(d) == {key \in ArrayKeys(d) : ArrayAt(d, key) = <<>>}
RowKeys(rows) == {<<rows[i].zdd_id, rows[i].array_index>> : i \in 1..Len(rows)}

RECURSIVE SumOf(_)
SumOf(ns) == IF ns = <<>> THEN 0 ELSE ns[1] + SumOf(Tail(ns))

BothCsvWritten == complete_csv.tag = "ok" /\ summary_csv.tag = "ok"

\* C3 as stated: every array, empty ones included, has a row in the complete CSV
\* and in the array-summary CSV, so both hold the (zdd_id, array_index) of all
\* decoded arrays.
C3_EmptyArraysInBothCsv ==
    BothCsvWritten =>
        /\ RowKeys(complete_csv.val) = ArrayKeys(zdds)
        /\ RowKeys(summary_csv.val) = ArrayKeys(zdds)

\* C3 amended: the array-summary CSV holds a row for every array, empty ones
\* included (with array_length 0); the complete CSV holds one row per element,
\* so it carries exactly the arrays that have an element and no empty array.
C3_EmptyArraysInSummaryOnly ==
    BothCsvWritten =>
        /\ RowKeys(summary_csv.val) = ArrayKeys(zdds)
        /\ \A i \in 1..Len(summary_csv.val) :
               LET row == summary_csv.val[i]
               IN  row.array_length
                   = Len(ArrayAt(zdds, <<row.zdd_id, row.array_index>>))
        /\ RowKeys(complete_csv.val) = ArrayKeys(zdds) \ EmptyKeys(zdds)

C3_Witness ==
    /\ BothCsvWritten
    /\ <<1, 0>> \in EmptyKeys(zdds)
    /\ <<12, 0>> \in ArrayKeys(zdds) \ EmptyKeys(zdds)
    /\ <<1, 0>> \in RowKeys(summary_csv.val)
    /\ <<1, 0>> \notin RowKeys(complete_csv.val)

\* C4: the frequencies of the pattern-analysis rows add up to the number of
\* arrays of all loaded ZDDs.
C4_FrequenciesSumToArrayCount ==
    pattern_csv.tag = "ok" =>
        SumOf([i \in 1..Len(pattern_csv.val) |->
                  pattern_csv.val[i].frequency_across_zdds])
        = SumOf([k \in 1..Len(zdds) |-> Len(zdds[k].val.arrays)])

C4_Witness ==
    /\ pattern_csv.tag = "ok"
    /\ Len(pattern_csv.val) = 1
    /\ pattern_csv.val[1].frequency_across_zdds = 2
    /\ ArrayKeys(zdds) = {<<1, 0>>, <<12, 0>>}
    /\ ArrayAt(zdds, <<1, 0>>) # ArrayAt(zdds, <<12, 0>>)

\* a is a permutation of b: the same elements with the same multiplicities
IsPermutation(a, b) ==
    /\ Len(a) = Len(b)
    /\ \A v \in Range(a) \cup Range(b) :
           Cardinality({i \in 1..Len(a) : a[i] = v})
           = Cardinality({i \in 1..Len(b) : b[i] = v})

IsAscending(a) == \A i \in 1..(Len(a) - 1) : a[i] <= a[i + 1]

\* the arrays a pattern row stands for: those its signature is a permutation of
RowArrays(d, row) ==
    {key \in ArrayKeys(d) :
        IsPermutation(ArrayAt(d, key), parse_assignment(row.array_signature).val)}

\* C5: the pattern table is keyed by the sorted tuple of an array: a row counts
\* exactly the arrays that are permutations of its (ascending) signature, every
\* array is counted by a row, and no two rows share a signature.
C5_KeyedBySortedTuple ==
    pattern_csv.tag = "ok" =>
        LET rows == pattern_csv.val
        IN  /\ \A i \in 1..Len(rows) :
                   /\ parse_assignment(rows[i].array_signature).tag = "ok"
                   /\ IsAscending(parse_assignment(rows[i].array_signature).val)
                   /\ rows[i].frequency_across_zdds
                      = Cardinality(RowArrays(zdds, rows[i]))
            /\ \A i, j \in 1..Len(rows) :
                   i # j => rows[i].array_signature # rows[j].array_signature
            /\ \A key \in ArrayKeys(zdds) :
                   \E i \in 1..Len(rows) : key \in RowArrays(zdds, rows[i])

C5_Witness ==
    /\ pattern_csv.tag = "ok"
    /\ ArrayKeys(zdds) = {<<1, 0>>, <<12, 0>>}
    /\ ArrayAt(zdds, <<1, 0>>) = <<12, -3>>
    /\ ArrayAt(zdds, <<12, 0>>) = <<-3, 12>>
    /\ Len(pattern_csv.val) = 1
    /\ pattern_csv.val[1].frequency_across_zdds = 2

\* C7: for every file load() accepts, the loaded structure holds as many arrays
\* as the count field of the header declares, and that is the count printed.
C7_ArrayCountIsHeaderCount ==
    \A i \in 1..Len(reported) :
        /\ reported[i].arrays = HeaderCount(bin[reported[i].file])
        /\ Len(DictGet(zdds, ZddNumOf(reported[i].file)).arrays)
           = HeaderCount(bin[reported[i].file])

C7_Witness ==
    /\ pc = "loaded"
    /\ Len(reported) = 2
    /\ reported[1].arrays = 1
    /\ reported[2].arrays = 1
    /\ DictGet(zdds, 1).arrays = <<<<>>>>

\* C8: once loaded, no exporter or analysis method changes a structure: its
\* magic number, its arrays, their elements and their order stay as loaded.
C8_LoadedStructuresImmutable == [][pc = "loaded" => zdds' = zdds]_vars

C8_Witness ==
    /\ pc = "loaded"
    /\ BothCsvWritten
    /\ pattern_csv.tag = "ok"
    /\ text_out.tag = "ok"
    /\ result.tag = "ok"
    /\ DictHas(zdds, 1)
    /\ DictGet(zdds, 1).arrays = <<<<12, -3>>>>

(***************************************************************************)
(* The batch evaluation manager: its methods, called in any order.         *)
(***************************************************************************)
NextBatch ==
    \/ \E e \in EvaluatorNames : GetNextBatch(e)
    \/ \E e \in EvaluatorNames, n \in 1..MaxBatches : SaveBatch(BatchData(n, e), e)

SpecBatch == InitBatch /\ [][NextBatch]_vars

\* the analysis script before its first computation
InitAnalysis ==
    /\ bin = <<>>
    /\ pc = "idle"
    /\ call = [op |-> "none"]
    /\ structure = Nothing
    /\ text_out = Nothing
    /\ result = Nothing
    /\ reparsed = <<>>
    /\ zdds = <<>>
    /\ reported = <<>>
    /\ complete_csv = Nothing
    /\ summary_csv = Nothing
    /\ pattern_csv = Nothing
    /\ index = <<>>
    /\ index_file = <<>>
    /\ batch_files = <<>>
    /\ ret = Nothing

\* main: the kappa of the two evaluators' maps
KappaOfEvaluations ==
    /\ pc = "idle"
    /\ \E eval1, eval2 \in EvaluationMaps(KappaRatings) :
           ComputeCohensKappa(eval1, eval2)

\* main: the model quality of one evaluator's map
QualityOfEvaluations ==
    /\ pc = "idle"
    /\ \E evaluations \in EvaluationMaps(Ratings) : ComputeModelQuality(evaluations)

NextAnalysis == KappaOfEvaluations \/ QualityOfEvaluations

SpecAnalysis == InitAnalysis /\ [][NextAnalysis]_vars

\* generate_skeleton_for_batch: the extraction for a thesis of the batch
ThesisInfoOfWit ==
    /\ pc = "idle"
    /\ \E file_lines \in WitFiles, thesis_id \in ThesisIds :
           ExtractThesisInfoFromWit(file_lines, thesis_id)

NextWit == ThesisInfoOfWit

SpecWit == InitAnalysis /\ [][NextWit]_vars

\* the evaluators whose batches are merged
MergeEvaluators == {"evaluator_1"}

(***************************************************************************)
(* The evaluation workflow of one evaluator: skeletons are generated,      *)
(* batches of the index are saved, templates are created, and the batch    *)
(* files are merged.                                                       *)
(***************************************************************************)
NextMerge ==
    \/ \E wit_file_exists \in BOOLEAN : GenerateSkeletons(wit_file_exists)
    \/ \E e \in MergeEvaluators, i \in 1..Len(index) :
          SaveBatch(BatchData(index[i].batch_number, e), e)
    \/ \E e \in MergeEvaluators, n \in 1..MaxBatches : CreateTemplate(n, e)
    \/ \E e \in MergeEvaluators : MergeAllBatches(e)

SpecMerge == InitBatch /\ [][NextMerge]_vars

\* the arrays of all loaded ZDDs: ascending zdd_id, then array order
AllArrays(d) ==
    LET ids == sorted(DictKeys(d))
    IN  Flatten([k \in 1..Len(ids) |-> DictGet(d, ids[k]).arrays])

\* <<zdd_id, array_index, element_position>> of a row of the complete CSV
ElementKey(row) == <<row.zdd_id, row.array_index, row.element_position>>
KeyBefore(a, b) ==
    \/ a[1] < b[1]
    \/ a[1] = b[1] /\ a[2] < b[2]
    \/ a[1] = b[1] /\ a[2] = b[2] /\ a[3] < b[3]

\* C14: the complete CSV has one data row per array element: as many rows as
\* the sum of the lengths of all arrays of all loaded ZDDs (the total_elements
\* reported), in ascending order of zdd_id, then array_index, then
\* element_position; in every row element_value is the element at
\* element_position of that array and array_length is the array's length.
C14_CompleteCsvRowPerElement ==
    pc = "complete" =>
        LET rows == complete_csv.val
            arrays == AllArrays(zdds)
        IN  /\ Len(rows) = SumOf([i \in 1..Len(arrays) |-> Len(arrays[i])])
            /\ \A i \in 1..(Len(rows) - 1) :
                   KeyBefore(ElementKey(rows[i]), ElementKey(rows[i + 1]))
            /\ \A i \in 1..Len(rows) :
                   LET row == rows[i]
                   IN  /\ <<row.zdd_id, row.array_index>> \in ArrayKeys(zdds)
                       /\ LET array == ArrayAt(zdds, <<row.zdd_id, row.array_index>>)
                          IN  /\ row.element_position \in 0..(Len(array) - 1)
                              /\ row.element_value = array[row.element_position + 1]
                              /\ row.array_length = Len(array)

\* two ZDDs are loaded; the first has an array of two different elements
C14_Witness ==
    /\ pc = "complete"
    /\ DictHas(zdds, 1) /\ DictHas(zdds, 12)
    /\ Len(DictGet(zdds, 1).arrays) >= 1
    /\ Len(ArrayAt(zdds, <<1, 0>>)) = 2
    /\ ArrayAt(zdds, <<1, 0>>)[1] # ArrayAt(zdds, <<1, 0>>)[2]
    /\ Len(complete_csv.val) >= 3
    /\ complete_csv.val[Len(complete_csv.val)].zdd_id = 12

\* C15: the array-summary CSV has exactly one data row per array of every
\* loaded ZDD, in ascending order of zdd_id, then array_index; in each row
\* array_length is the array's length, unique_elements the number of distinct
\* elements, array_elements lists the elements in original order,
\* array_signature_sorted is their ascending sort, and min_element and
\* max_element are the minimum and maximum, both 0 for an empty array.
C15_SummaryCsvRowPerArray ==
    pc = "summary" =>
        LET rows == summary_csv.val
        IN  /\ Len(rows) = Cardinality(ArrayKeys(zdds))
            /\ \A i \in 1..(Len(rows) - 1) :
                   KeyBefore(<<rows[i].zdd_id, rows[i].array_index, 0>>,
                             <<rows[i + 1].zdd_id, rows[i + 1].array_index, 0>>)
            /\ \A i \in 1..Len(rows) :
                   LET row == rows[i]
                   IN  /\ <<row.zdd_id, row.array_index>> \in ArrayKeys(zdds)
                       /\ LET array == ArrayAt(zdds, <<row.zdd_id, row.array_index>>)
                              listed == parse_assignment(row.array_elements)
                              signature == parse_assignment(row.array_signature_sorted)
                          IN  /\ row.array_length = Len(array)
                              /\ row.unique_elements = Cardinality(Range(array))
                              /\ listed = Ok(array)
                              /\ signature.tag = "ok"
                              /\ IsAscending(signature.val)
                              /\ IsPermutation(signature.val, array)
                              /\ IF array = <<>>
                                 THEN row.min_element = 0 /\ row.max_element = 0
                                 ELSE /\ row.min_element \in Range(array)
                                      /\ row.max_element \in Range(array)
                                      /\ \A v \in Range(array) :
                                             row.min_element <= v /\ v <= row.max_element

\* the summary holds an empty array and an array that is not ascending
C15_Witness ==
    /\ pc = "summary"
    /\ \E i \in 1..Len(summary_csv.val) : summary_csv.val[i].array_length = 0
    /\ \E i \in 1..Len(summary_csv.val) :
          /\ summary_csv.val[i].array_length = 2
          /\ summary_csv.val[i].array_elements # summary_csv.val[i].array_signature_sorted
          /\ summary_csv.val[i].min_element < summary_csv.val[i].max_element

AnyCsvWritten ==
    complete_csv.tag = "ok" \/ summary_csv.tag = "ok" \/ pattern_csv.tag = "ok"
EveryInputLoads ==
    DOMAIN bin # {} /\ \A f \in DOMAIN bin : Load(bin[f]).tag = "ok"

\* C17: the CSV analysis command writes output only after every input has
\* loaded: no CSV file (and with it no output directory) exists unless load()
\* succeeded for every zdd_*.bin file of the directory; when the directory
\* holds no zdd_*.bin file or a file fails to load, the command ends with
\* exit status 1 and an error message and has written nothing.
C17_CsvOutputOnlyAfterAllLoaded ==
    pc # "idle" =>
        /\ AnyCsvWritten => EveryInputLoads
        /\ ~EveryInputLoads =>
               /\ pc = "exit1"
               /\ result.tag = "raise"
               /\ ExitStatus(result) = 1
               /\ ~AnyCsvWritten

\* the first file was loaded, the second failed to load, nothing was written
C17_Witness ==
    /\ pc = "exit1"
    /\ result = Raise(DecodeError)
    /\ Len(zdds) = 1
    /\ Len(call.files) = 2
    /\ ~AnyCsvWritten

CsvCommandEnded == pc \in {"exit0", "exit1"}

\* C21: the CSV analysis command succeeds on every directory whose zdd_*.bin
\* files all load: once the three CSV files are written, print_summary
\* completes and the process ends with exit status 0, also when the loaded
\* ZDDs together hold zero arrays or only empty arrays.
C21_CsvCommandSucceedsWhenAllLoad ==
    (CsvCommandEnded /\ EveryInputLoads) =>
        /\ pc = "exit0"
        /\ result.tag = "ok"
        /\ ExitStatus(result) = 0
        /\ complete_csv.tag = "ok" /\ summary_csv.tag = "ok" /\ pattern_csv.tag = "ok"

(***************************************************************************)
(* Properties of the multi-file text output.                               *)
(***************************************************************************)
StartsWith(line, prefix) ==
    Len(line) >= Len(prefix) /\ SubSeq(line, 1, Len(prefix)) = prefix
EndsWith(line, suffix) ==
    Len(line) >= Len(suffix)
    /\ SubSeq(line, Len(line) - Len(suffix) + 1, Len(line)) = suffix
AfterPrefix(line, prefix) == SubSeq(line, Len(prefix) + 1, Len(line))

\* the lines of a text whose every line ends with "\n", without the terminators
LinesOf(text) ==
    LET ends == sorted(SetToSeqOfInts({i \in 1..Len(text) : text[i] = "\n"}))
    IN  [k \in 1..Len(ends) |->
            SubSeq(text, IF k = 1 THEN 1 ELSE ends[k - 1] + 1, ends[k] - 1)]

ZddPrefix == <<"#", " ", "Z", "D", "D", " ">>
EndPrefix == <<"#", " ", "E", "n", "d", " ", "o", "f", " ", "Z", "D", "D", " ">>
ArraysPrefix == <<"#", " ", "A", "r", "r", "a", "y", "s", ":", " ">>

\* the positions, ascending, of the lines that start with prefix
LinesStarting(lines, prefix) ==
    sorted(SetToSeqOfInts({n \in 1..Len(lines) : StartsWith(lines[n], prefix)}))
\* the number of non-comment lines among lines from+1 .. to-1
ArrayLinesBetween(lines, from, to) ==
    Cardinality({n \in (from + 1)..(to - 1) : ~StartsWith(lines[n], <<"#">>)})
\* the entries of the input list that exist, in list order
ExistingInputs == SelectSeq(call.files, LAMBDA f : f \in DOMAIN bin)

MultiConvertedOk == pc = "multi" /\ result.tag = "ok"

\* C16: convert_multiple_binary_files writes one section per existing input
\* file, in input-list order; the count of a section's '# Arrays: n' line is
\* the number of array lines between its header and its '# End of ZDD'
\* footer, and the non-comment lines of the output are as many as the arrays
\* of the files converted.
C16_OneSectionPerExistingFile ==
    MultiConvertedOk =>
        LET lines == LinesOf(text_out.val)
            headers == LinesStarting(lines, ZddPrefix)
            footers == LinesStarting(lines, EndPrefix)
            inputs == ExistingInputs
            counts == [k \in 1..Len(inputs) |-> Len(Load(bin[inputs[k]]).val.arrays)]
        IN  /\ Len(headers) = Len(inputs)
            /\ Len(footers) = Len(inputs)
            /\ \A k \in 1..Len(inputs) :
                   /\ headers[k] < footers[k]
                   /\ k < Len(inputs) => footers[k] < headers[k + 1]
                   /\ EndsWith(lines[headers[k]], <<":", " ">> \o inputs[k])
                   /\ \E n \in headers[k]..footers[k] :
                          /\ StartsWith(lines[n], ArraysPrefix)
                          /\ int_ok(AfterPrefix(lines[n], ArraysPrefix))
                          /\ int(AfterPrefix(lines[n], ArraysPrefix))
                             = ArrayLinesBetween(lines, headers[k], footers[k])
                   /\ ArrayLinesBetween(lines, headers[k], footers[k]) = counts[k]
            /\ ArrayLinesBetween(lines, 0, Len(lines) + 1) = SumOf(counts)

\* the second file of the list is converted after the first, each with a
\* section of its own, and one of them holds an empty array
C16_Witness ==
    /\ MultiConvertedOk
    /\ call.files = <<BinName(12), BinName(1)>>
    /\ ExistingInputs = call.files
    /\ Load(bin[BinName(12)]).val.arrays = <<<<>>>>
    /\ Len(Load(bin[BinName(1)]).val.arrays) = 1
    /\ Len(LinesStarting(LinesOf(text_out.val), ZddPrefix)) = 2

MultiLoadFailed == pc = "multi" /\ result = Raise(DecodeError)
\* the position in the input list of the first existing file that fails to load
FirstFailing ==
    Min({i \in 1..Len(call.files) :
            call.files[i] \in DOMAIN bin /\ Load(bin[call.files[i]]).tag = "raise"})
\* the existing entries of the input list before position i
ExistingBefore(i) ==
    SelectSeq(SubSeq(call.files, 1, i - 1), LAMBDA f : f \in DOMAIN bin)

\* C18 as stated: when load() fails for a file during
\* convert_multiple_binary_files, the output file holds no section and no
\* array line of the files processed before the failing one.
C18_NoPartialOutputOnLoadFailure ==
    MultiLoadFailed =>
        LET lines == LinesOf(text_out.val)
        IN  /\ LinesStarting(lines, ZddPrefix) = <<>>
            /\ ArrayLinesBetween(lines, 0, Len(lines) + 1) = 0

\* C18, amended: when load() fails for a file, the conversion raises and
\* converts nothing more, and the output file is left holding the complete
\* sections (header, array lines, footer) of the existing files that precede
\* the failing one in the list, and nothing of the failing file or of a later
\* one.
C18_PartialOutputKeptOnLoadFailure ==
    MultiLoadFailed =>
        LET lines == LinesOf(text_out.val)
            headers == LinesStarting(lines, ZddPrefix)
            footers == LinesStarting(lines, EndPrefix)
            before == ExistingBefore(FirstFailing)
            counts == [k \in 1..Len(before) |-> Len(Load(bin[before[k]]).val.arrays)]
        IN  /\ text_out.tag = "ok"
            /\ Len(headers) = Len(before)
            /\ Len(footers) = Len(before)
            /\ \A k \in 1..Len(before) :
                   /\ EndsWith(lines[headers[k]], <<":", " ">> \o before[k])
                   /\ headers[k] < footers[k]
                   /\ ArrayLinesBetween(lines, headers[k], footers[k]) = counts[k]
            /\ ArrayLinesBetween(lines, 0, Len(lines) + 1) = SumOf(counts)
            /\ before # <<>> => footers[Len(footers)] = Len(lines) - 1

\* the first file of the list was converted, the second failed to load, and
\* the output holds the first file's section with its array line
C18_Witness ==
    /\ MultiLoadFailed
    /\ call.files = <<BinName(1), BinName(12)>>
    /\ FirstFailing = 2
    /\ BinName(1) \in DOMAIN bin
    /\ Len(Load(bin[BinName(1)]).val.arrays) = 1
    /\ Len(LinesStarting(LinesOf(text_out.val), ZddPrefix)) = 1
    /\ ArrayLinesBetween(LinesOf(text_out.val), 0, Len(LinesOf(text_out.val)) + 1) = 1

\* C20: for a fixed set of zdd*.bin files, convert_zdd_binary_directory
\* produces the same output text - same section order, same 'ZDD <i>'
\* numbering - whatever the order in which the directory listing returns
\* the files: the text written equals the text any other listing order gives.
C20_DirectoryConversionDeterministic ==
    (pc = "directory" /\ result.tag = "ok") =>
        \A listing \in Listings(DOMAIN bin) :
            text_out.val = MultiLoop(bin, listing, 0, <<>>).text

(***************************************************************************)
(* Properties of the batch evaluation manager.                             *)
(***************************************************************************)
HasEntry(batches, i, e) == e \in DOMAIN batches[i].status
IsPending(batches, i, e) ==
    HasEntry(batches, i, e) /\ batches[i].status[e] = "pending"
PendingAt(batches, e) == {i \in 1..Len(batches) : IsPending(batches, i, e)}
\* the positions at which the loop of get_next_batch stops
StopsAt(batches, e) ==
    {i \in 1..Len(batches) : ~HasEntry(batches, i, e) \/ IsPending(batches, i, e)}
GetNextStep == call'.op = "get_next_batch"

\* C9 as stated: get_next_batch(evaluator) returns the batch_number of the
\* first batch, in index order, that is pending for the evaluator, returns
\* None exactly when no batch is pending for the evaluator, and leaves the
\* index unchanged.
C9_NextBatchFirstPendingOrNone ==
    [][GetNextStep =>
        LET e == call'.evaluator
            pending == PendingAt(index, e)
        IN  /\ index' = index
            /\ index_file' = index_file
            /\ IF pending = {} THEN ret' = ReturnedNone
               ELSE ret' = Ok(index[Min(pending)].batch_number)]_vars

\* C9, amended: get_next_batch(evaluator) walks the index in order and stops
\* at the first batch that is pending for the evaluator or has no status
\* entry for the evaluator; it returns that batch's batch_number in the
\* first case and raises KeyError in the second, returns None when it stops
\* at no batch, and leaves the index unchanged.
C9_NextBatchFirstPendingOrKeyError ==
    [][GetNextStep =>
        LET e == call'.evaluator
            stops == StopsAt(index, e)
        IN  /\ index' = index
            /\ index_file' = index_file
            /\ IF stops = {} THEN ret' = ReturnedNone
               ELSE IF HasEntry(index, Min(stops), e)
               THEN ret' = Ok(index[Min(stops)].batch_number)
               ELSE ret' = Raise(KeyError)]_vars

\* get_next_batch has passed a completed batch and returned the second one
C9_Witness ==
    /\ call.op = "get_next_batch"
    /\ Len(index) >= 2
    /\ HasEntry(index, 1, call.evaluator)
    /\ index[1].status[call.evaluator] = "completed"
    /\ IsPending(index, 2, call.evaluator)
    /\ ret = Ok(index[2].batch_number)

BatchNumbers(batches) == {batches[i].batch_number : i \in 1..Len(batches)}
\* the (position, evaluator) status entries of an index
Entries(batches) ==
    {<<i, e>> \in (1..Len(batches)) \X EvaluatorNames : HasEntry(batches, i, e)}
SaveStep == call'.op = "save_batch"

\* C10: save_batch(batch_data, evaluator), for a batch number of the index,
\* writes batch_data to evaluations/<evaluator>/batch_<n>.json, sets that
\* batch's status for that evaluator to 'completed', changes no other status
\* entry, batch or file, and leaves the persisted index equal to the index
\* in memory.
C10_SaveBatchCompletesOneEntry ==
    [][(SaveStep /\ call'.batch_data.batch_number \in BatchNumbers(index)) =>
        LET e == call'.evaluator
            n == call'.batch_data.batch_number
            path == <<e, n>>
            at == Min({i \in 1..Len(index) : index[i].batch_number = n})
        IN  /\ path \in DOMAIN batch_files'
            /\ batch_files'[path] = call'.batch_data
            /\ DOMAIN batch_files' = DOMAIN batch_files \cup {path}
            /\ \A q \in DOMAIN batch_files \ {path} : batch_files'[q] = batch_files[q]
            /\ Len(index') = Len(index)
            /\ \A i \in 1..Len(index) :
                  /\ index'[i].batch_number = index[i].batch_number
                  /\ index'[i].thesis_ids = index[i].thesis_ids
            /\ Entries(index') = Entries(index) \cup {<<at, e>>}
            /\ index'[at].status[e] = "completed"
            /\ \A k \in Entries(index) \ {<<at, e>>} :
                  index'[k[1]].status[k[2]] = index[k[1]].status[k[2]]
            /\ index_file' = index']_vars

\* a batch was saved for one evaluator while the other batch and the other
\* evaluator are still pending
C10_Witness ==
    /\ call.op = "save_batch"
    /\ call.batch_data.batch_number = 1
    /\ Len(index) >= 2
    /\ index[1].status[call.evaluator] = "completed"
    /\ \E e \in IndexEvaluators : index[1].status[e] = "pending"
    /\ \A e \in IndexEvaluators : index[2].status[e] = "pending"
    /\ <<call.evaluator, 1>> \in DOMAIN batch_files
    /\ batch_files[<<call.evaluator, 1>>] = call.batch_data
    /\ index_file = index

(***************************************************************************)
(* Properties of merging.                                                  *)
(***************************************************************************)
\* the thesis evaluations saved for the batches that are completed for e
CompletedEvaluations(batches, files, e) ==
    LET done == SelectSeq(batches,
                    LAMBDA b : /\ e \in DOMAIN b.status
                               /\ b.status[e] = "completed"
                               /\ <<e, b.batch_number>> \in DOMAIN files)
    IN  Flatten([i \in 1..Len(done) |->
            files[<<e, done[i].batch_number>>].thesis_evaluations])

MergedBy(e) == call.op = "merge_all_batches" /\ call.evaluator = e

\* C11: after merge_all_batches(evaluator) the thesis_evaluations of the
\* merged file are exactly the thesis evaluations of the batches whose index
\* status for that evaluator is 'completed': nothing of a pending batch and
\* nothing of a template file is among them.
C11_MergeHoldsCompletedBatchesOnly ==
    \A e \in MergeEvaluators :
        MergedBy(e) =>
            LET merged == ret.val.thesis_evaluations
                expected == CompletedEvaluations(index, batch_files, e)
            IN  /\ Len(merged) = Len(expected)
                /\ Range(merged) = Range(expected)

(***************************************************************************)
(* Properties of the evaluation analysis.                                  *)
(***************************************************************************)
RatedByBoth(eval1, eval2) ==
    {c \in DOMAIN eval1 \cap DOMAIN eval2 :
        eval1[c].rating # "" /\ eval2[c].rating # ""}

\* C12: compute_cohens_kappa returns ratings1 and ratings2 of equal length
\* whose position i holds the two ratings of the i-th clause id, in ascending
\* order, among the clause ids present in both maps and rated by both; no
\* other clause contributes, and the result is (None, [], []) exactly when
\* no clause is rated by both.
C12_KappaPairsCommonRatedClauses ==
    call.op = "compute_cohens_kappa" =>
        LET both == RatedByBoth(call.eval1, call.eval2)
            ids == SortedNames(both)
            out == ret.val
        IN  /\ Len(out.ratings1) = Len(out.ratings2)
            /\ Len(out.ratings1) = Cardinality(both)
            /\ \A i \in 1..Len(ids) :
                  /\ out.ratings1[i] = call.eval1[ids[i]].rating
                  /\ out.ratings2[i] = call.eval2[ids[i]].rating
            /\ \A i, j \in 1..Len(ids) : i < j => TextLess(ids[i], ids[j])
            /\ (out.kappa = "None") <=> (both = {})
            /\ (out.kappa = "None") => (out.ratings1 = <<>> /\ out.ratings2 = <<>>)

\* two clauses are rated by both, with different pairs of ratings, a third is
\* common but unrated on one side
C12_Witness ==
    /\ call.op = "compute_cohens_kappa"
    /\ Len(ret.val.ratings1) = 2
    /\ <<ret.val.ratings1[1], ret.val.ratings2[1]>>
          # <<ret.val.ratings1[2], ret.val.ratings2[2]>>
    /\ \E c \in DOMAIN call.eval1 \cap DOMAIN call.eval2 :
          call.eval1[c].rating = "" /\ call.eval2[c].rating # ""

SomeRated(evaluations) == \E c \in DOMAIN evaluations : evaluations[c].rating # ""

\* C13: for every evaluation map with at least one non-empty rating,
\* compute_model_quality returns accept_count + revise_count + reject_count
\* = total_clauses, and revise_count + reject_count = total_clauses -
\* accept_count.
C13_QualityCountsAddUp ==
    (call.op = "compute_model_quality" /\ SomeRated(call.evaluations)) =>
        /\ ret.tag = "ok"
        /\ ret.val.accept_count + ret.val.revise_count + ret.val.reject_count
              = ret.val.total_clauses
        /\ ret.val.revise_count + ret.val.reject_count
              = ret.val.total_clauses - ret.val.accept_count

(***************************************************************************)
(* Properties of the skeleton generator.                                   *)
(***************************************************************************)
Extracted == call.op = "extract_thesis_info_from_wit"
\* the 1-indexed lines of the WIT file that hold the header of the thesis
HeaderLines(lines, thesis_id) ==
    {n \in 1..Len(lines) : Contains(lines[n], HeaderOf(thesis_id))}
\* the last line of the section that starts at line start
SectionEnd(lines, start) ==
    LET nexts == {n \in (start + 1)..Len(lines) : Contains(lines[n], ThesisMarker)}
    IN  IF nexts = {} THEN Len(lines) ELSE Min(nexts) - 1
\* the lines from..to, ascending, that define a clause of the thesis
DefinitionLines(lines, thesis_id, from, to) ==
    sorted(SetToSeqOfInts({n \in from..to : ClauseMatch(lines[n], thesis_id).tag = "ok"}))

\* C19: extract_thesis_info_from_wit returns None when no line contains the
\* thesis's '// THESIS <id>:' header; otherwise it returns exactly the clause
\* definitions of that thesis on the lines from the header up to, but not
\* including, the next '// THESIS ' line (or the end of the file), in line
\* order, each with empty rating and justification and a 1-indexed
\* clause_line inside the inclusive line range reported in wit_lines.
C19_ClausesOfTheThesisSection ==
    Extracted =>
        LET lines == SplitOn(call.wit_content, "\n")
            id == call.thesis_id
            heads == HeaderLines(lines, id)
        IN  IF heads = {} THEN ret = ReturnedNone
            ELSE LET start == Min(heads)
                     end == SectionEnd(lines, start)
                     defs == DefinitionLines(lines, id, start, end)
                     clauses == ret.val.clauses
                 IN  /\ ret.tag = "ok"
                     /\ ret.val.wit_lines = str(start) \o <<"-">> \o str(end)
                     /\ Len(clauses) = Len(defs)
                     /\ \A k \in 1..Len(defs) :
                            /\ clauses[k].clause_line = defs[k]
                            /\ clauses[k].clause_line \in start..end
                            /\ clauses[k].clause_id
                               = ClauseMatch(lines[defs[k]], id).val.clause_id
                            /\ clauses[k].clause_content
                               = ClauseMatch(lines[defs[k]], id).val.clause_content
                            /\ clauses[k].rating = <<>>
                            /\ clauses[k].justification = <<>>

\* the section of thesis 1 holds one clause and ends at the header of thesis
\* 11; a clause of thesis 1 after that header is not returned
C19_Witness ==
    /\ Extracted
    /\ call.thesis_id = 1
    /\ ret.tag = "ok"
    /\ Len(ret.val.clauses) = 1
    /\ ret.val.clauses[1].clause_line = 2
    /\ LET lines == SplitOn(call.wit_content, "\n")
       IN  /\ Len(lines) = 4
           /\ SectionEnd(lines, 1) = 2
           /\ ClauseMatch(lines[4], 1).tag = "ok"

=============================================================================
